---- MODULE Spec2Model ----
\* Medication-adherence tracker (Allan144/Bolt): schedule expansion, event
\* correlation and adherence aggregation, modelled from the TypeScript sources.
\*
\* Time.  A JavaScript Date is modelled as a number of seconds since the UTC
\* midnight that starts day 0; day 0 is Monday 2024-01-01.  The browser's
\* local wall clock is UTC + tz seconds.  Calendar dates ('yyyy-MM-dd') are
\* day numbers, times of day ('HH:mm:ss') are seconds after midnight.
EXTENDS Integers, Sequences, FiniteSets, TLC

VARIABLES
    tz,                  \* offset of the browser's local time from UTC, in seconds
    now,                 \* the clock: value of new Date()
    dbPrescriptions,     \* table prescriptions
    dbSchedules,         \* table dose_schedules
    dbLogs,              \* table medication_logs
    dbHistory,           \* table medication_history
    screen,              \* which view is mounted on top of the Dashboard
    dashLogs,            \* Dashboard: state `logs`
    prescriptions,       \* DailyPrescriptionsModal: state `prescriptions`
    doseSchedules,       \* DailyPrescriptionsModal: state `doseSchedules`
    logs,                \* DailyPrescriptionsModal: state `logs`
    history,             \* DailyPrescriptionsModal: state `history`
    startDate,           \* DailyPrescriptionsModal: state `startDate`
    endDate,             \* DailyPrescriptionsModal: state `endDate`
    selectedPrescription,\* DailyPrescriptionsModal: state `selectedPrescription`
    statusFilter,        \* DailyPrescriptionsModal: state `statusFilter`
    sortOrder,           \* DailyPrescriptionsModal: state `sortOrder`
    scheduledDoses,      \* DailyPrescriptionsModal: state `scheduledDoses`
    filteredHistory,     \* PrescriptionHistoryModal: state `filteredHistory`
    editingPrescription, \* Dashboard: state `editingPrescription` (id or NoPrescription)
    formSchedules,       \* PrescriptionForm: state `schedules`
    storedSession,       \* localStorage item 'supabase_session': <<>> or <<session>>
    authSession,         \* the session supabase.auth holds: <<>> or <<session>>
    userProfiles,        \* ids of the rows of table users
    authReturn           \* how the last call of validateStoredAuth or signOut ended

vars == <<tz, now, dbPrescriptions, dbSchedules, dbLogs, dbHistory,
          screen, dashLogs, prescriptions, doseSchedules, logs, history, startDate,
          endDate, selectedPrescription, statusFilter, sortOrder,
          scheduledDoses, filteredHistory, editingPrescription, formSchedules,
          storedSession, authSession, userProfiles, authReturn>>

formVars == <<editingPrescription, formSchedules>>
authVars == <<storedSession, authSession, userProfiles, authReturn>>
storeVars == <<dbPrescriptions, dbSchedules, dbLogs, dbHistory>>
dailyVars == <<prescriptions, doseSchedules, logs, history, startDate,
               endDate, selectedPrescription, statusFilter, sortOrder,
               scheduledDoses>>

----------------------------------------------------------------------------
\* Bounds of the model

MaxDay == 13            \* calendar dates range over 0..MaxDay
MaxLogs == 1            \* rows of medication_logs written by the actions
MaxHist == 1            \* rows of medication_history written by the actions
MaxTicks == 1           \* clock steps after the initial instant
MaxRules == 2           \* rows of dose_schedules of a drawn rule table
MaxSnapLogs == 1        \* rows of medication_logs of a drawn snapshot
MaxSnapHist == 1        \* rows of medication_history of a drawn snapshot
MaxAggRows == 3         \* rows of a drawn table handed to the aggregator
MaxTimingRows == 1      \* rows of medication_history of a drawn timing table
MaxEditRows == 2        \* rows of medication_history of a drawn table to edit
MaxFormRules == 2       \* rules in the prescription form
MaxRepeat == 2          \* rows of a table when an action on a dose is repeated

----------------------------------------------------------------------------
\* Calendar and clock arithmetic

DaySecs == 24 * 60 * 60
ToleranceMs == 60000    \* the literal of the log match, in milliseconds
MsPerSec == 1000

NoDate == 0 - 1           \* the empty string of the date inputs

\* format(d, 'yyyy-MM-dd'): the local calendar date of a Date
formatDate(d) == (d + tz) \div DaySecs

\* format(d, 'HH:mm:ss'): the local time of day of a Date
formatTime(d) == (d + tz) % DaySecs

\* new Date(`${date}T${time}`): a string without zone is read as local time
parseLocal(date, time) == date * DaySecs + time - tz

\* a zone-less string stored into a timestamptz column is read as UTC
parseTimestamptz(date, time) == date * DaySecs + time

\* Date.getDay(): 0 = Sunday .. 6 = Saturday, of the local calendar date
getDay(d) == (formatDate(d) + 1) % 7

\* Date.getTime(), in milliseconds
getTime(d) == d * MsPerSec

Abs(x) == IF x < 0 THEN -x ELSE x

----------------------------------------------------------------------------
\* Array helpers

\* Array.prototype.find: the first element that satisfies Test, as a
\* sequence of length 0 (undefined) or 1
Find(s, Test(_)) ==
    LET hits == {i \in 1..Len(s) : Test(s[i])}
    IN IF hits = {} THEN <<>>
       ELSE <<s[CHOOSE i \in hits : \A j \in hits : i <= j]>>

\* Array.prototype.sort with comparator key(a) - key(b), given the keys of
\* the elements in keys: stable, ascending
SortAsc(s, keys) ==
    LET pos(i) == 1 + Cardinality({j \in 1..Len(s) :
                        keys[j] < keys[i] \/ (keys[j] = keys[i] /\ j < i)})
    IN [n \in 1..Len(s) |-> s[CHOOSE i \in 1..Len(s) : pos(i) = n]]

\* the same with comparator -(key(a) - key(b)): stable, descending
SortDesc(s, keys) ==
    LET pos(i) == 1 + Cardinality({j \in 1..Len(s) :
                        keys[j] > keys[i] \/ (keys[j] = keys[i] /\ j < i)})
    IN [n \in 1..Len(s) |-> s[CHOOSE i \in 1..Len(s) : pos(i) = n]]

\* Array.prototype.map
Map(s, F(_)) == [i \in 1..Len(s) |-> F(s[i])]

\* every ordering of the rows of a table (a select without ORDER BY)
Orderings(s) ==
    LET n == Len(s)
        perms == {f \in [1..n -> 1..n] : \A i, j \in 1..n : i # j => f[i] # f[j]}
    IN {[i \in 1..n |-> s[f[i]]] : f \in perms}

RECURSIVE Flatten(_)
\* the concatenation of a sequence of sequences (successive Array.push)
Flatten(ss) == IF ss = <<>> THEN <<>> ELSE Head(ss) \o Flatten(Tail(ss))

\* a variant of MathRound that drops the fraction (Math.floor)
MathFloor(num, den) == num \div den

\* Math.round(num / den) for den > 0: the nearest integer, halves upwards
MathRound(num, den) == (2 * num + den) \div (2 * den)

----------------------------------------------------------------------------
\* Schedule expander (lib/supabase.ts)

\* a variant of dayOfWeek that keeps the native numbering, Sunday = 0
dayOfWeekNative(date) == getDay(date)

\* date.getDay() === 0 ? 7 : date.getDay()
dayOfWeek(date) == IF getDay(date) = 0 THEN 7 ELSE getDay(date)

\* the filter of generateScheduledTimes
ruleApplies(schedule, date) ==
    schedule.is_active /\ dayOfWeek(date) \in schedule.days_of_week

\* a variant of doseInstant that adds the rule's time of day to the date
\* handed in, keeping the time of day that date has
doseInstantOffset(schedule, date) ==
    LET hours == schedule.dose_time \div 3600
        minutes == (schedule.dose_time % 3600) \div 60
    IN date + hours * 3600 + minutes * 60

\* const [hours, minutes] = schedule.dose_time.split(':').map(Number);
\* time.setHours(hours, minutes, 0, 0) on a copy of date
doseInstant(schedule, date) ==
    LET hours == schedule.dose_time \div 3600
        minutes == (schedule.dose_time % 3600) \div 60
    IN parseLocal(formatDate(date), hours * 3600 + minutes * 60)

generateScheduledTimes(schedules, date) ==
    LET kept == SelectSeq(schedules, LAMBDA sch : ruleApplies(sch, date))
        times == Map(kept, LAMBDA sch : doseInstant(sch, date))
    IN SortAsc(times, Map(times, getTime))

----------------------------------------------------------------------------
\* Event correlator (DailyPrescriptionsModal.generateScheduledDoses)

\* a variant of historyMatches that compares the time the dose was actually
\* taken instead of the scheduled fields
historyMatchesByActual(h, prescription, date, scheduledTime) ==
    /\ h.prescription_id = prescription.id
    /\ h.actual_taken_datetime = scheduledTime

\* the predicate of history.find
historyMatches(h, prescription, date, scheduledTime) ==
    /\ h.prescription_id = prescription.id
    /\ h.scheduled_date = formatDate(date)
    /\ h.scheduled_time = formatTime(scheduledTime)

\* a variant of logMatches whose window is closed at one minute
logMatchesInclusive(l, scheduledTime) ==
    Abs(getTime(l.scheduled_time) - getTime(scheduledTime)) <= ToleranceMs

\* the predicate of logs.find: new Date(l.scheduled_time) within one minute
logMatches(l, scheduledTime) ==
    Abs(getTime(l.scheduled_time) - getTime(scheduledTime)) < ToleranceMs

\* a variant of unloggedStatus that turns a dose whose time has passed into
\* a missed dose
unloggedStatusDecay(scheduledTime, clock) ==
    IF scheduledTime < clock THEN "missed" ELSE "pending"

\* the status of a dose that has neither history entry nor log (the branch
\* `else if (scheduledTime < new Date())` and the initial value of status)
unloggedStatus(scheduledTime, clock) ==
    IF scheduledTime < clock THEN "pending" ELSE "pending"

\* the quantity looked up by time of day among the prescription's rules
quantityFor(prescriptionSchedules, scheduledTime) ==
    LET found == Find(prescriptionSchedules,
                      LAMBDA ds : ds.dose_time = formatTime(scheduledTime))
    IN IF found = <<>> THEN 1 ELSE found[1].quantity

\* a variant of reconcile that looks at the logs first and at the history
\* only when no log is near
reconcileLogFirst(prescription, prescriptionSchedules, date, scheduledTime, lgs, hist, clock) ==
    LET log == Find(lgs, LAMBDA l : logMatches(l, scheduledTime))
        historyEntry == Find(hist, LAMBDA h :
                             historyMatches(h, prescription, date, scheduledTime))
        status == IF log # <<>> THEN log[1].status
                  ELSE IF historyEntry # <<>> THEN "taken"
                  ELSE unloggedStatus(scheduledTime, clock)
    IN [prescription |-> prescription,
        scheduledDateTime |-> scheduledTime,
        quantity |-> quantityFor(prescriptionSchedules, scheduledTime),
        status |-> status,
        log |-> log,
        historyEntry |-> historyEntry]

\* one ScheduledDose: the body of scheduledTimes.forEach
reconcile(prescription, prescriptionSchedules, date, scheduledTime, lgs, hist, clock) ==
    LET historyEntry == Find(hist, LAMBDA h :
                             historyMatches(h, prescription, date, scheduledTime))
        log == IF historyEntry # <<>> THEN <<>>
               ELSE Find(lgs, LAMBDA l : logMatches(l, scheduledTime))
        status == IF historyEntry # <<>> THEN "taken"
                  ELSE IF log # <<>> THEN log[1].status
                  ELSE unloggedStatus(scheduledTime, clock)
    IN [prescription |-> prescription,
        scheduledDateTime |-> scheduledTime,
        quantity |-> quantityFor(prescriptionSchedules, scheduledTime),
        status |-> status,
        log |-> log,
        historyEntry |-> historyEntry]

\* the doses of one prescription on one day: the body of prescriptions.forEach
dosesOf(prescription, schedules, date, lgs, hist, clock) ==
    LET prescriptionSchedules ==
            SelectSeq(schedules, LAMBDA ds : ds.prescription_id = prescription.id)
        scheduledTimes == generateScheduledTimes(prescriptionSchedules, date)
    IN Map(scheduledTimes, LAMBDA t :
           reconcile(prescription, prescriptionSchedules, date, t, lgs, hist, clock))

\* addDays of date-fns
addDays(date, n) == date + n * DaySecs

RECURSIVE datesBefore(_, _)
\* a variant of datesOfRange that stops one day before the end
datesBefore(date, end) ==
    IF addDays(date, 1) <= end THEN <<date>> \o datesBefore(addDays(date, 1), end)
    ELSE <<>>

RECURSIVE datesOfRange(_, _)
\* for (let date = new Date(start); date <= end; date = addDays(date, 1))
datesOfRange(date, end) ==
    IF date <= end THEN <<date>> \o datesOfRange(addDays(date, 1), end) ELSE <<>>

\* the unfiltered list `doses` built by the loops of generateScheduledDoses
allDoses(prescs, schedules, lgs, hist, sd, ed, clock) ==
    LET start == parseLocal(sd, 0)
        end == parseLocal(ed, DaySecs - 1)
        dates == datesOfRange(start, end)
    IN Flatten(Map(dates, LAMBDA date :
           Flatten(Map(prescs, LAMBDA p :
               dosesOf(p, schedules, date, lgs, hist, clock)))))

\* a variant of sortDoses that sorts ascending whatever the order asked for
sortDosesAscending(doses, order) ==
    SortAsc(doses, Map(doses, LAMBDA d : getTime(d.scheduledDateTime)))

\* filteredDoses.sort(...)
sortDoses(doses, order) ==
    IF order = "asc"
    THEN SortAsc(doses, Map(doses, LAMBDA d : getTime(d.scheduledDateTime)))
    ELSE SortDesc(doses, Map(doses, LAMBDA d : getTime(d.scheduledDateTime)))

\* generateScheduledDoses: the value it hands to setScheduledDoses, or prev
\* when it returns early
generateScheduledDoses(prev, prescs, schedules, lgs, hist, sd, ed, selP, statF, order, clock) ==
    IF sd = NoDate \/ ed = NoDate THEN prev
    ELSE LET doses == allDoses(prescs, schedules, lgs, hist, sd, ed, clock)
             byPrescription ==
                 IF selP # "all"
                 THEN SelectSeq(doses, LAMBDA d : d.prescription.name = selP)
                 ELSE doses
             byStatus ==
                 IF statF # "all"
                 THEN SelectSeq(byPrescription, LAMBDA d : d.status = statF)
                 ELSE byPrescription
         IN sortDoses(byStatus, order)

\* the effect that reruns generateScheduledDoses when one of its inputs changed
effectDoses(prev, prescs, schedules, lgs, hist, sd, ed, selP, statF, order, clock) ==
    IF Len(prescs) > 0 /\ Len(schedules) > 0
    THEN generateScheduledDoses(prev, prescs, schedules, lgs, hist, sd, ed,
                                selP, statF, order, clock)
    ELSE prev

----------------------------------------------------------------------------
\* Adherence aggregator

\* the number of elements of s that satisfy Test (filter(...).length)
Count(s, Test(_)) == Cardinality({i \in 1..Len(s) : Test(s[i])})

\* a variant of getStats that takes every dose that is not taken for pending
getStatsTwoBuckets(doses) ==
    [total |-> Len(doses),
     taken |-> Count(doses, LAMBDA d : d.status = "taken"),
     missed |-> Count(doses, LAMBDA d : d.status = "missed"),
     pending |-> Len(doses) - Count(doses, LAMBDA d : d.status = "taken")]

\* DailyPrescriptionsModal.getStats
getStats(doses) ==
    [total |-> Len(doses),
     taken |-> Count(doses, LAMBDA d : d.status = "taken"),
     missed |-> Count(doses, LAMBDA d : d.status = "missed"),
     pending |-> Count(doses, LAMBDA d : d.status = "pending")]

\* Dashboard.getAdherenceRate
getAdherenceRate(lgs) ==
    IF Len(lgs) = 0 THEN 0
    ELSE MathRound(Count(lgs, LAMBDA l : l.status = "taken") * 100, Len(lgs))

\* the filter of PrescriptionHistoryModal.getStats: the unrounded distance
\* in minutes is at most 15
countsOnTime(entry) ==
    LET scheduledDateTime == parseLocal(entry.scheduled_date, entry.scheduled_time)
    IN Abs(getTime(entry.actual_taken_datetime) - getTime(scheduledDateTime))
           <= 15 * 60 * MsPerSec

\* PrescriptionHistoryModal.getStats
historyStats(entries) ==
    [total |-> Len(entries),
     onTime |-> Count(entries, countsOnTime),
     corrected |-> Count(entries, LAMBDA e : e.is_corrected)]

\* the percentage of the stats bar of PrescriptionHistoryModal
onTimeRate(entries) ==
    LET stats == historyStats(entries)
    IN IF stats.total > 0 THEN MathRound(stats.onTime * 100, stats.total) ELSE 0

\* Math.round((actual - scheduled) / (1000 * 60)) of getTimeDifference
diffMinutes(scheduledDateTime, actual) ==
    MathRound(getTime(actual) - getTime(scheduledDateTime), 60 * MsPerSec)

\* the first test of PrescriptionHistoryModal.getTimeDifferenceColor
isOnTimeColor(entry) ==
    Abs(diffMinutes(parseLocal(entry.scheduled_date, entry.scheduled_time),
                    entry.actual_taken_datetime)) <= 15

----------------------------------------------------------------------------
\* Timing classifier (the time labels, colours and correction indicators)

\* getTimeDifference of the daily view: 'On time', `${n} min late` or
\* `${n} min early`, as the fixed text and the number n
getTimeDifference(scheduled, actual) ==
    LET minutes == diffMinutes(scheduled, actual)
    IN IF minutes = 0 THEN [text |-> "On time", minutes |-> 0]
       ELSE IF minutes > 0 THEN [text |-> "min late", minutes |-> minutes]
       ELSE [text |-> "min early", minutes |-> Abs(minutes)]

\* getTimeDifference of the history view, which first builds the scheduled
\* Date from the stored date and time
historyTimeDifference(entry) ==
    getTimeDifference(parseLocal(entry.scheduled_date, entry.scheduled_time),
                      entry.actual_taken_datetime)

\* getTimeDifferenceColor of the daily view: the distance in minutes is not
\* rounded before it is compared
dailyTimeDifferenceColor(scheduled, actual) ==
    LET diffMs == Abs(getTime(actual) - getTime(scheduled))
    IN IF diffMs <= 15 * 60 * MsPerSec THEN "green"
       ELSE IF diffMs <= 60 * 60 * MsPerSec THEN "yellow"
       ELSE "red"

\* getTimeDifferenceColor of the history view: the offset is rounded first
historyTimeDifferenceColor(entry) ==
    LET minutes == diffMinutes(parseLocal(entry.scheduled_date, entry.scheduled_time),
                               entry.actual_taken_datetime)
    IN IF Abs(minutes) <= 15 THEN "green"
       ELSE IF Abs(minutes) <= 60 THEN "yellow"
       ELSE "red"

\* the correction indicator of a dose of the daily view that has a history
\* entry: more than one minute between scheduled and actual time, unrounded
dailyCorrectionIndicator(dose) ==
    /\ dose.historyEntry # <<>>
    /\ Abs(getTime(dose.historyEntry[1].actual_taken_datetime)
             - getTime(dose.scheduledDateTime)) > 60 * MsPerSec

\* the 'Time Corrected' badge of the history view: the stored flag and more
\* than one minute between scheduled and actual time, unrounded
historyCorrectionBadge(entry) ==
    /\ entry.is_corrected
    /\ Abs(getTime(entry.actual_taken_datetime)
             - getTime(parseLocal(entry.scheduled_date, entry.scheduled_time)))
           > 60 * MsPerSec

----------------------------------------------------------------------------
\* Prescription card (PrescriptionCard.getTodaysDoses)

\* one entry of getTodaysDoses: the log of the dose and log?.status || 'pending'
cardDose(time, cardLogs) ==
    LET log == Find(cardLogs, LAMBDA l : logMatches(l, time))
    IN [time |-> time,
        log |-> log,
        status |-> IF log = <<>> THEN "pending" ELSE log[1].status]

\* getTodaysDoses of the card of one prescription; the Dashboard hands the
\* card the rules and the logs of that prescription
getTodaysDoses(prescription, schedules, lgs, today) ==
    LET cardSchedules ==
            SelectSeq(schedules, LAMBDA ds : ds.prescription_id = prescription.id)
        cardLogs ==
            SelectSeq(lgs, LAMBDA l : l.prescription_id = prescription.id)
    IN Map(generateScheduledTimes(cardSchedules, today),
           LAMBDA t : cardDose(t, cardLogs))

----------------------------------------------------------------------------
\* Data of the model

Statuses == {"pending", "taken", "missed", "skipped"}
TZOffsets == {0, 0 - 5 * 3600}
Today == 7 * 1              \* the local calendar date of the initial clock
TickSecs == 2 * 3600
DateChoices == {0, MaxDay}
ActualOffsets == {0, 10 * 60}
CorrectionTimes == {8 * 3600 + 5 * 60}
EditOffsets == {20 * 60}
Names == <<"A", "B">>

TimeOfDay(h, m, sec) == h * 3600 + m * 60 + sec

Prescription(id) == [id |-> id, name |-> Names[id], is_active |-> TRUE]

Rule(id, pid, time, qty, days, active) ==
    [id |-> id, prescription_id |-> pid, dose_time |-> time, quantity |-> qty,
     days_of_week |-> days, is_active |-> active]

\* prescription A twice a day one minute apart, B on Mondays
RulesMinuteApart ==
    << Rule(1, 1, TimeOfDay(8, 0, 0), 1, 1..7, TRUE),
       Rule(2, 1, TimeOfDay(8, 1, 0), 2, 1..7, TRUE),
       Rule(3, 2, TimeOfDay(8, 0, 0), 1, {1}, TRUE) >>

\* prescription A every day and B on Mondays, at the same time of day
RulesSameTime ==
    << Rule(1, 1, TimeOfDay(8, 0, 0), 1, 1..7, TRUE),
       Rule(2, 2, TimeOfDay(8, 0, 0), 2, {1}, TRUE) >>

\* the clock at the start: 07:00 local time on Today
NowStart(zone) == Today * DaySecs + 7 * 3600 - zone

\* all sequences of at most n elements of S
SeqsUpTo(S, n) == UNION {[1..k -> S] : k \in 0..n}

\* the rows with their primary keys: row i gets key i
Keyed(rows) == [i \in 1..Len(rows) |-> [rows[i] EXCEPT !.id = i]]

----------------------------------------------------------------------------
\* Store queries

\* .eq('is_active', true) on prescriptions and on dose_schedules
activeRows(table) == SelectSeq(table, LAMBDA r : r.is_active)

\* the primary key of a new row (gen_random_uuid()): a key no row of the
\* table has; the model takes the least such number
freshId(table) ==
    CHOOSE k \in 1..(Len(table) + 1) :
        /\ \A i \in 1..Len(table) : table[i].id # k
        /\ \A j \in 1..(k - 1) : \E i \in 1..Len(table) : table[i].id = j

\* Dashboard.fetchLogs: .order('scheduled_time', { ascending: false })
fetchLogs(table) == SortDesc(table, Map(table, LAMBDA l : l.scheduled_time))

\* PrescriptionHistoryModal.fetchHistory and applyFilters with the filters
\* fetchHistory sets: the last 30 days by actual time, all prescriptions,
\* sorted by actual time, latest first
fetchHistory(table, clock) ==
    LET ordered == SortDesc(table, Map(table, LAMBDA h : h.actual_taken_datetime))
        start == parseLocal(formatDate(clock) - 30, 0)
        end == parseLocal(formatDate(clock), DaySecs - 1)
        inRange == SelectSeq(ordered, LAMBDA h :
                       h.actual_taken_datetime >= start /\ h.actual_taken_datetime <= end)
    IN SortDesc(inRange, Map(inRange, LAMBDA h : getTime(h.actual_taken_datetime)))

----------------------------------------------------------------------------
\* Actions of the daily view (DailyPrescriptionsModal)

\* the initial state of the daily view (its useState initial values)
DailyUnmounted ==
    /\ prescriptions = <<>>
    /\ doseSchedules = <<>>
    /\ logs = <<>>
    /\ history = <<>>
    /\ startDate = NoDate
    /\ endDate = NoDate
    /\ selectedPrescription = "all"
    /\ statusFilter = "all"
    /\ sortOrder = "asc"
    /\ scheduledDoses = <<>>

\* fetchData, followed by the effect that regenerates the doses
fetchData(ok) ==
    /\ startDate' = formatDate(now)
    /\ endDate' = formatDate(now)
    /\ IF ok
       THEN /\ prescriptions' = activeRows(dbPrescriptions)
            /\ doseSchedules' = activeRows(dbSchedules)
            /\ logs' \in Orderings(dbLogs)
            /\ history' \in Orderings(dbHistory)
       ELSE UNCHANGED <<prescriptions, doseSchedules, logs, history>>
    /\ scheduledDoses' = effectDoses(scheduledDoses, prescriptions', doseSchedules',
                             logs', history', startDate', endDate',
                             selectedPrescription, statusFilter, sortOrder, now)
    /\ UNCHANGED <<tz, authVars, formVars, now, storeVars, dashLogs, selectedPrescription,
                   statusFilter, sortOrder, filteredHistory>>

\* the Dashboard mounts the daily view, whose mount effect calls fetchData
OpenDaily ==
    /\ screen = "dashboard"
    /\ screen' = "daily"
    /\ \E ok \in BOOLEAN : fetchData(ok)

\* handleRefresh of the daily view
RefreshDaily ==
    /\ screen = "daily"
    /\ screen' = screen
    /\ \E ok \in BOOLEAN : fetchData(ok)

\* onClose: the daily view is unmounted and its state dropped
CloseDaily ==
    /\ screen = "daily"
    /\ screen' = "dashboard"
    /\ prescriptions' = <<>>
    /\ doseSchedules' = <<>>
    /\ logs' = <<>>
    /\ history' = <<>>
    /\ startDate' = NoDate
    /\ endDate' = NoDate
    /\ selectedPrescription' = "all"
    /\ statusFilter' = "all"
    /\ sortOrder' = "asc"
    /\ scheduledDoses' = <<>>
    /\ UNCHANGED <<tz, authVars, formVars, now, storeVars, dashLogs, filteredHistory>>

\* a change of one of the inputs of the daily view, followed by the effect
changeFilters(sd, ed, selP, statF, order) ==
    /\ screen = "daily"
    /\ startDate' = sd
    /\ endDate' = ed
    /\ selectedPrescription' = selP
    /\ statusFilter' = statF
    /\ sortOrder' = order
    /\ scheduledDoses' = effectDoses(scheduledDoses, prescriptions, doseSchedules,
                             logs, history, sd, ed, selP, statF, order, now)
    /\ UNCHANGED <<tz, authVars, formVars, now, storeVars, screen, dashLogs, prescriptions,
                   doseSchedules, logs, history, filteredHistory>>

\* the date inputs
SetStartDate ==
    \E d \in DateChoices :
        changeFilters(d, endDate, selectedPrescription, statusFilter, sortOrder)

SetEndDate ==
    \E d \in DateChoices :
        changeFilters(startDate, d, selectedPrescription, statusFilter, sortOrder)

\* the selects
SetSelectedPrescription ==
    \E n \in {"all"} \cup {prescriptions[i].name : i \in 1..Len(prescriptions)} :
        changeFilters(startDate, endDate, n, statusFilter, sortOrder)

SetStatusFilter ==
    \E f \in {"all", "taken", "missed", "pending"} :
        changeFilters(startDate, endDate, selectedPrescription, f, sortOrder)

SetSortOrder ==
    \E o \in {"asc", "desc"} :
        changeFilters(startDate, endDate, selectedPrescription, statusFilter, o)

----------------------------------------------------------------------------
\* Actions of the Dashboard

\* Dashboard.handleMarkTaken; okHistory and okLogs tell whether the insert
\* into medication_history and the upsert into medication_logs succeed
handleMarkTaken(prescriptionId, scheduledDate, scheduledTime, quantity, actualDateTime, okHistory, okLogs) ==
    LET entry == [id |-> freshId(dbHistory),
                  prescription_id |-> prescriptionId,
                  scheduled_date |-> scheduledDate,
                  scheduled_time |-> scheduledTime,
                  actual_taken_datetime |-> actualDateTime,
                  quantity_taken |-> quantity,
                  is_corrected |-> TRUE]
        log == [id |-> freshId(dbLogs),
                prescription_id |-> prescriptionId,
                scheduled_time |-> parseTimestamptz(scheduledDate, scheduledTime),
                taken_time |-> <<actualDateTime>>,
                status |-> "taken",
                is_time_corrected |-> FALSE]
    IN /\ dbHistory' = IF okHistory THEN Append(dbHistory, entry) ELSE dbHistory
       /\ dbLogs' = IF okHistory /\ okLogs THEN Append(dbLogs, log) ELSE dbLogs
       /\ dashLogs' = IF okHistory /\ okLogs THEN fetchLogs(dbLogs') ELSE dashLogs
       /\ UNCHANGED <<tz, authVars, formVars, now, dbPrescriptions, dbSchedules, screen, dailyVars,
                      filteredHistory>>

\* the card of a prescription: the user marks one of today's doses, shown
\* as pending, as taken (handleMarkTaken and confirmMarkTaken of the card);
\* the optional correctedScheduledDateTime input is left empty
CardMarkTakenUpTo(maxLogs, maxHist) ==
    \E pi \in 1..Len(dbPrescriptions) :
        LET p == dbPrescriptions[pi]
            cardSchedules == SelectSeq(activeRows(dbSchedules),
                                 LAMBDA ds : ds.prescription_id = p.id)
            doses == getTodaysDoses(p, activeRows(dbSchedules), dashLogs, now)
        IN /\ screen = "dashboard"
           /\ p.is_active
           /\ Len(dbLogs) < maxLogs
           /\ Len(dbHistory) < maxHist
           /\ \E i \in {j \in 1..Len(doses) : doses[j].status = "pending"} :
                \E off \in ActualOffsets, okHistory \in BOOLEAN, okLogs \in BOOLEAN :
                    LET time == doses[i].time
                    IN handleMarkTaken(p.id, formatDate(time), formatTime(time),
                                       quantityFor(cardSchedules, time),
                                       time + off, okHistory, okLogs)

\* the same while the tables hold fewer than MaxLogs and MaxHist rows
CardMarkTaken == CardMarkTakenUpTo(MaxLogs, MaxHist)

\* the same while the tables hold fewer than MaxRepeat rows
CardMarkTakenAgain == CardMarkTakenUpTo(MaxRepeat, MaxRepeat)

\* Dashboard.handleMarkMissed
handleMarkMissed(prescriptionId, scheduledTime, ok) ==
    LET log == [id |-> freshId(dbLogs),
                prescription_id |-> prescriptionId,
                scheduled_time |-> scheduledTime,
                taken_time |-> <<>>,
                status |-> "missed",
                is_time_corrected |-> FALSE]
    IN /\ dbLogs' = IF ok THEN Append(dbLogs, log) ELSE dbLogs
       /\ dashLogs' = IF ok THEN fetchLogs(dbLogs') ELSE dashLogs
       /\ UNCHANGED <<tz, authVars, formVars, now, dbPrescriptions, dbSchedules, dbHistory, screen,
                      dailyVars, filteredHistory>>

\* the card of a prescription: the user marks a pending dose of today as
\* missed; the card passes dose.time.toISOString()
CardMarkMissedUpTo(maxLogs) ==
    \E pi \in 1..Len(dbPrescriptions) :
        LET p == dbPrescriptions[pi]
            doses == getTodaysDoses(p, activeRows(dbSchedules), dashLogs, now)
        IN /\ screen = "dashboard"
           /\ p.is_active
           /\ Len(dbLogs) < maxLogs
           /\ \E i \in {j \in 1..Len(doses) : doses[j].status = "pending"},
                 ok \in BOOLEAN :
                  handleMarkMissed(p.id, doses[i].time, ok)

\* the same while the table holds fewer than MaxLogs rows
CardMarkMissed == CardMarkMissedUpTo(MaxLogs)

\* the same while the table holds fewer than MaxRepeat rows
CardMarkMissedAgain == CardMarkMissedUpTo(MaxRepeat)

\* Dashboard.handleCorrectTime
handleCorrectTime(logId, newTime, ok) ==
    /\ dbLogs' = IF ok
                 THEN [i \in 1..Len(dbLogs) |->
                          IF dbLogs[i].id = logId
                          THEN [dbLogs[i] EXCEPT !.taken_time = <<newTime>>,
                                                 !.is_time_corrected = TRUE]
                          ELSE dbLogs[i]]
                 ELSE dbLogs
    /\ dashLogs' = IF ok THEN fetchLogs(dbLogs') ELSE dashLogs
    /\ UNCHANGED <<tz, authVars, formVars, now, dbPrescriptions, dbSchedules, dbHistory, screen,
                   dailyVars, filteredHistory>>

\* the card of a prescription: the user corrects the time of a dose of
\* today whose log has a taken time (handleTimeCorrection); the time typed
\* in is put on today's date
CardCorrectTime ==
    \E pi \in 1..Len(dbPrescriptions) :
        LET p == dbPrescriptions[pi]
            doses == getTodaysDoses(p, activeRows(dbSchedules), dashLogs, now)
        IN /\ screen = "dashboard"
           /\ p.is_active
           /\ \E i \in {j \in 1..Len(doses) :
                         doses[j].log # <<>> /\ doses[j].log[1].taken_time # <<>>},
                 correctionTime \in CorrectionTimes, ok \in BOOLEAN :
                  handleCorrectTime(doses[i].log[1].id,
                                    parseLocal(formatDate(now), correctionTime), ok)

\* a variant of handleDeletePrescription that removes the row
handleDeletePrescriptionHard(id, ok) ==
    /\ dbPrescriptions' = IF ok THEN SelectSeq(dbPrescriptions, LAMBDA p : p.id # id)
                          ELSE dbPrescriptions
    /\ UNCHANGED <<tz, authVars, formVars, now, dbSchedules, dbLogs, dbHistory, screen, dashLogs,
                   dailyVars, filteredHistory>>

\* Dashboard.handleDeletePrescription, once the user has confirmed
handleDeletePrescription(id, ok) ==
    /\ dbPrescriptions' = IF ok
                          THEN [i \in 1..Len(dbPrescriptions) |->
                                   IF dbPrescriptions[i].id = id
                                   THEN [dbPrescriptions[i] EXCEPT !.is_active = FALSE]
                                   ELSE dbPrescriptions[i]]
                          ELSE dbPrescriptions
    /\ UNCHANGED <<tz, authVars, formVars, now, dbSchedules, dbLogs, dbHistory, screen, dashLogs,
                   dailyVars, filteredHistory>>

\* onDelete of the card of an active prescription
CardDelete ==
    \E pi \in 1..Len(dbPrescriptions), ok \in BOOLEAN :
        /\ screen = "dashboard"
        /\ dbPrescriptions[pi].is_active
        /\ handleDeletePrescription(dbPrescriptions[pi].id, ok)

\* Dashboard.handleReactivatePrescription, once the user has confirmed: the
\* prescription, then its rules
handleReactivatePrescription(id, okPrescription, okSchedules) ==
    /\ dbPrescriptions' = IF okPrescription
                          THEN [i \in 1..Len(dbPrescriptions) |->
                                   IF dbPrescriptions[i].id = id
                                   THEN [dbPrescriptions[i] EXCEPT !.is_active = TRUE]
                                   ELSE dbPrescriptions[i]]
                          ELSE dbPrescriptions
    /\ dbSchedules' = IF okPrescription /\ okSchedules
                      THEN [i \in 1..Len(dbSchedules) |->
                               IF dbSchedules[i].prescription_id = id
                               THEN [dbSchedules[i] EXCEPT !.is_active = TRUE]
                               ELSE dbSchedules[i]]
                      ELSE dbSchedules
    /\ UNCHANGED <<tz, authVars, formVars, now, dbLogs, dbHistory, screen, dashLogs,
                   dailyVars, filteredHistory>>

\* the reactivate button of an inactive prescription
Reactivate ==
    \E pi \in 1..Len(dbPrescriptions), okPrescription \in BOOLEAN, okSchedules \in BOOLEAN :
        /\ screen = "dashboard"
        /\ ~dbPrescriptions[pi].is_active
        /\ handleReactivatePrescription(dbPrescriptions[pi].id, okPrescription, okSchedules)

\* DoseScheduleScreen.generateDosesForDate: `taken` of the dose of a
\* prescription at an instant, from the history alone
doseScreenTaken(prescription, scheduledTime, hist) ==
    Find(hist, LAMBDA h : historyMatches(h, prescription, scheduledTime, scheduledTime)) # <<>>

\* Dashboard.fetchLogs on mount and on refresh
DashboardFetchLogs ==
    /\ screen = "dashboard"
    /\ dashLogs' = fetchLogs(dbLogs)
    /\ UNCHANGED <<tz, authVars, formVars, now, storeVars, screen, dailyVars, filteredHistory>>

----------------------------------------------------------------------------
\* Actions of the history view (PrescriptionHistoryModal)

\* the Dashboard mounts the history view, whose mount effect calls
\* fetchHistory; applyFilters follows
OpenHistory ==
    /\ screen = "dashboard"
    /\ screen' = "history"
    /\ \E ok \in BOOLEAN :
           filteredHistory' = IF ok THEN fetchHistory(dbHistory, now) ELSE <<>>
    /\ UNCHANGED <<tz, authVars, formVars, now, storeVars, dashLogs, dailyVars>>

\* onClose: the history view is unmounted and its state dropped
CloseHistory ==
    /\ screen = "history"
    /\ screen' = "dashboard"
    /\ filteredHistory' = <<>>
    /\ UNCHANGED <<tz, authVars, formVars, now, storeVars, dashLogs, dailyVars>>

\* a variant of handleSaveEdit that leaves the stored flag as it is
handleSaveEditKeepFlag(editingEntry, editDateTime, ok) ==
    /\ dbHistory' = IF ok
                    THEN [i \in 1..Len(dbHistory) |->
                             IF dbHistory[i].id = editingEntry
                             THEN [dbHistory[i] EXCEPT !.actual_taken_datetime = editDateTime]
                             ELSE dbHistory[i]]
                    ELSE dbHistory
    /\ filteredHistory' = IF ok THEN fetchHistory(dbHistory', now) ELSE filteredHistory
    /\ UNCHANGED <<tz, authVars, formVars, now, dbPrescriptions, dbSchedules, dbLogs, screen,
                   dashLogs, dailyVars>>

\* handleSaveEdit of the entry with the given id
handleSaveEdit(editingEntry, editDateTime, ok) ==
    /\ dbHistory' = IF ok
                    THEN Map(dbHistory, LAMBDA h :
                             IF h.id = editingEntry
                             THEN [h EXCEPT !.actual_taken_datetime = editDateTime,
                                            !.is_corrected = TRUE]
                             ELSE h)
                    ELSE dbHistory
    /\ filteredHistory' = IF ok THEN fetchHistory(dbHistory', now) ELSE filteredHistory
    /\ UNCHANGED <<tz, authVars, formVars, now, dbPrescriptions, dbSchedules, dbLogs, screen,
                   dashLogs, dailyVars>>

HistorySaveEdit ==
    \E i \in 1..Len(filteredHistory), off \in EditOffsets, ok \in BOOLEAN :
        LET h == filteredHistory[i]
        IN /\ screen = "history"
           /\ handleSaveEdit(h.id,
                  parseLocal(h.scheduled_date, h.scheduled_time) + off, ok)

\* handleDeleteEntry, once the user has confirmed
handleDeleteEntry(entryId, ok) ==
    /\ dbHistory' = IF ok THEN SelectSeq(dbHistory, LAMBDA h : h.id # entryId)
                    ELSE dbHistory
    /\ filteredHistory' = IF ok THEN fetchHistory(dbHistory', now) ELSE filteredHistory
    /\ UNCHANGED <<tz, authVars, formVars, now, dbPrescriptions, dbSchedules, dbLogs, screen,
                   dashLogs, dailyVars>>

HistoryDeleteEntry ==
    \E i \in 1..Len(filteredHistory), ok \in BOOLEAN :
        /\ screen = "history"
        /\ handleDeleteEntry(filteredHistory[i].id, ok)

----------------------------------------------------------------------------
\* Prescription form (PrescriptionForm) and the store's checks on rules

NoPrescription == 0

\* a rule of the form: the time of day in minutes ('HH:mm'), the quantity
\* and the weekdays
formRule(time, qty, days) == [dose_time |-> time, quantity |-> qty, days_of_week |-> days]

\* the rule the form starts with and the rule addSchedule appends
DefaultSchedules == <<formRule(8 * 60, 1, 1..7)>>
AddedSchedule == formRule(12 * 60, 1, 1..7)

\* the form is closed: its effect has put the default rule back
FormClosed ==
    /\ editingPrescription = NoPrescription
    /\ formSchedules = DefaultSchedules

\* the values typed into the inputs of a rule and the weekday buttons clicked
FormQuantities == {0}
FormTimes == {12 * 60}
FormDays == {1}

\* array_length(days_of_week, 1): NULL (the empty sequence) for an empty array
arrayLength(days) == IF days = {} THEN <<>> ELSE <<Cardinality(days)>>

\* AND of SQL over "true", "false" and "null"
sqlAnd(a, b) ==
    IF a = "false" \/ b = "false" THEN "false"
    ELSE IF a = "null" \/ b = "null" THEN "null"
    ELSE "true"

\* CHECK (quantity > 0)
checkQuantity(qty) == qty > 0

\* CHECK (array_length(days_of_week, 1) > 0 AND days_of_week <@ ARRAY[1..7]):
\* a row passes unless the expression is false
checkDaysOfWeek(days) ==
    LET len == arrayLength(days)
        positive == IF len = <<>> THEN "null"
                    ELSE IF len[1] > 0 THEN "true" ELSE "false"
        contained == IF days \subseteq 1..7 THEN "true" ELSE "false"
    IN sqlAnd(positive, contained) # "false"

\* the k-th key no row of the table has (gen_random_uuid(), as in freshId)
freshIdAt(table, k) ==
    LET used == {table[i].id : i \in 1..Len(table)}
    IN CHOOSE n \in 1..(Len(table) + k) :
           /\ n \notin used
           /\ Cardinality({j \in 1..(n - 1) : j \notin used}) = k - 1

\* insert of scheduleData for a prescription: all rows or, when a row fails a
\* check, none
insertSchedules(table, pid, scheduleData) ==
    IF \A k \in 1..Len(scheduleData) :
           /\ checkQuantity(scheduleData[k].quantity)
           /\ checkDaysOfWeek(scheduleData[k].days_of_week)
    THEN table \o [k \in 1..Len(scheduleData) |->
                      Rule(freshIdAt(table, k), pid, scheduleData[k].dose_time,
                           scheduleData[k].quantity, scheduleData[k].days_of_week,
                           scheduleData[k].is_active)]
    ELSE table

\* Dashboard.handleEditPrescription: the rules of the prescription are
\* deleted (the outcome of the delete is not looked at) and the submitted
\* ones inserted
handleEditPrescription(pid, scheduleData, okUpdate, okDelete, okInsert) ==
    LET kept == IF okDelete
                THEN SelectSeq(dbSchedules, LAMBDA r : r.prescription_id # pid)
                ELSE dbSchedules
    IN dbSchedules' =
           IF ~okUpdate THEN dbSchedules
           ELSE IF Len(scheduleData) > 0 /\ okInsert
                THEN insertSchedules(kept, pid, scheduleData)
                ELSE kept

\* onEdit of a card: the form opens on the prescription, and its effect loads
\* the rules the Dashboard holds for it (active, by dose_time), if any
OpenForm ==
    \E i \in 1..Len(dbPrescriptions) :
        LET p == dbPrescriptions[i]
            active == activeRows(dbSchedules)
            fetched == SortAsc(active, Map(active, LAMBDA r : r.dose_time))
            own == SelectSeq(fetched, LAMBDA ds : ds.prescription_id = p.id)
        IN /\ screen = "dashboard"
           /\ p.is_active
           /\ screen' = "form"
           /\ editingPrescription' = p.id
           /\ formSchedules' =
                  IF Len(own) > 0
                  THEN [k \in 1..Len(own) |->
                           formRule(own[k].dose_time \div 60, own[k].quantity,
                                    own[k].days_of_week)]
                  ELSE formSchedules
           /\ UNCHANGED <<tz, authVars, now, storeVars, dashLogs, dailyVars, filteredHistory>>

\* onClose of the form
CloseForm ==
    /\ screen = "form"
    /\ screen' = "dashboard"
    /\ editingPrescription' = NoPrescription
    /\ formSchedules' = DefaultSchedules
    /\ UNCHANGED <<tz, authVars, now, storeVars, dashLogs, dailyVars, filteredHistory>>

addSchedule ==
    /\ screen = "form"
    /\ Len(formSchedules) < MaxFormRules
    /\ formSchedules' = Append(formSchedules, AddedSchedule)
    /\ UNCHANGED <<tz, authVars, now, storeVars, screen, dashLogs, dailyVars, filteredHistory,
                   editingPrescription>>

\* the button is shown when the form has more than one rule
removeSchedule ==
    \E index \in 1..Len(formSchedules) :
        /\ screen = "form"
        /\ Len(formSchedules) > 1
        /\ formSchedules' = [k \in 1..(Len(formSchedules) - 1) |->
                                IF k < index THEN formSchedules[k] ELSE formSchedules[k + 1]]
        /\ UNCHANGED <<tz, authVars, now, storeVars, screen, dashLogs, dailyVars, filteredHistory,
                       editingPrescription>>

\* the time input and the quantity input of a rule
updateSchedule ==
    \E index \in 1..Len(formSchedules) :
        /\ screen = "form"
        /\ \/ \E value \in FormTimes :
                 formSchedules' = [formSchedules EXCEPT ![index].dose_time = value]
           \/ \E value \in FormQuantities :
                 formSchedules' = [formSchedules EXCEPT ![index].quantity = value]
        /\ UNCHANGED <<tz, authVars, now, storeVars, screen, dashLogs, dailyVars, filteredHistory,
                       editingPrescription>>

toggleDay ==
    \E timeIndex \in 1..Len(formSchedules), day \in FormDays :
        LET currentDays == formSchedules[timeIndex].days_of_week
        IN /\ screen = "form"
           /\ formSchedules' =
                  [formSchedules EXCEPT ![timeIndex].days_of_week =
                      IF day \in currentDays THEN currentDays \ {day}
                      ELSE currentDays \cup {day}]
           /\ UNCHANGED <<tz, authVars, now, storeVars, screen, dashLogs, dailyVars, filteredHistory,
                          editingPrescription>>

\* the submit button: the browser submits when every quantity input holds a
\* number from 1 to 10 (min, max, required); handleSubmit hands the rules to
\* handleEditPrescription and closes the form.  A failed delete is followed
\* while the table holds fewer than MaxFormRules rules.
handleSubmit ==
    LET scheduleData == [k \in 1..Len(formSchedules) |->
                            [dose_time |-> formSchedules[k].dose_time * 60,
                             quantity |-> formSchedules[k].quantity,
                             days_of_week |-> formSchedules[k].days_of_week,
                             is_active |-> TRUE]]
    IN /\ screen = "form"
       /\ \A k \in 1..Len(formSchedules) : formSchedules[k].quantity \in 1..10
       /\ \E okUpdate, okDelete, okInsert \in BOOLEAN :
              /\ okDelete \/ Len(dbSchedules) < MaxFormRules
              /\ handleEditPrescription(editingPrescription, scheduleData,
                                        okUpdate, okDelete, okInsert)
       /\ screen' = "dashboard"
       /\ editingPrescription' = NoPrescription
       /\ formSchedules' = DefaultSchedules
       /\ UNCHANGED <<tz, authVars, now, dbPrescriptions, dbLogs, dbHistory, dashLogs, dailyVars,
                      filteredHistory>>

----------------------------------------------------------------------------
\* Session handling (lib/supabase.ts validateStoredAuth and signOut,
\* lib/auth.ts storeSession and removeStoredSession)

\* localStorage without the item
NoSession == <<>>
UserIds == {1, 2}

\* a session of supabase.auth: its token and its user
Session(token, user) == [token |-> token, user_id |-> user]

\* what a call has not yet returned
NoCall == [call |-> "none", threw |-> FALSE, user |-> <<>>]

\* the state the other specifications run in: user 1 signed in
SignedIn ==
    /\ storedSession = <<Session(1, 1)>>
    /\ authSession = <<Session(1, 1)>>
    /\ userProfiles = {1}
    /\ authReturn = NoCall

\* the outcomes of supabase.auth.getSession(), of the profile lookup and of
\* supabase.auth.signOut(): a result, an error object, or an exception
GetSessionOutcomes == {"ok", "refresh_token_not_found", "error", "throws"}
LookupOutcomes == {"ok", "error", "throws"}
SignOutOutcomes == {"ok", "session_not_found", "throws"}

\* the try block of validateStoredAuth: whether it throws, what it returns
\* and what it leaves in localStorage; setItem throws when storeOk is false
validateTry(getSession, lookup, storeOk) ==
    IF getSession = "throws"
    THEN [threw |-> TRUE, user |-> <<>>, stored |-> storedSession]
    ELSE IF getSession = "refresh_token_not_found"
    THEN [threw |-> FALSE, user |-> <<>>, stored |-> NoSession]
    ELSE IF getSession = "error"
    THEN [threw |-> TRUE, user |-> <<>>, stored |-> storedSession]
    ELSE IF authSession = <<>>
    THEN [threw |-> FALSE, user |-> <<>>, stored |-> NoSession]
    ELSE IF lookup = "throws"
    THEN [threw |-> TRUE, user |-> <<>>, stored |-> storedSession]
    ELSE IF lookup = "error" \/ authSession[1].user_id \notin userProfiles
    THEN [threw |-> FALSE, user |-> <<>>, stored |-> NoSession]
    ELSE IF ~storeOk
    THEN [threw |-> TRUE, user |-> <<>>, stored |-> storedSession]
    ELSE [threw |-> FALSE, user |-> <<authSession[1].user_id>>, stored |-> authSession]

\* a variant of validateOutcome without the catch block
validateOutcomeNoCatch(getSession, lookup, storeOk) == validateTry(getSession, lookup, storeOk)

\* validateStoredAuth with its catch block: removeStoredSession(); return null
validateOutcome(getSession, lookup, storeOk) ==
    LET try == validateTry(getSession, lookup, storeOk)
    IN IF try.threw THEN [threw |-> FALSE, user |-> <<>>, stored |-> NoSession]
       ELSE try

validateStoredAuth ==
    \E getSession \in GetSessionOutcomes, lookup \in LookupOutcomes, storeOk \in BOOLEAN :
        LET outcome == validateOutcome(getSession, lookup, storeOk)
        IN /\ storedSession' = outcome.stored
           /\ authReturn' = [call |-> "validateStoredAuth", threw |-> outcome.threw,
                             user |-> outcome.user]
           /\ UNCHANGED <<tz, now, storeVars, screen, dashLogs, dailyVars, filteredHistory,
                          formVars, authSession, userProfiles>>

\* signOut: the catch block swallows every exception of
\* supabase.auth.signOut(), the finally block removes the stored session
signOut ==
    \E outcome \in SignOutOutcomes :
        /\ authSession' = IF outcome = "ok" THEN <<>> ELSE authSession
        /\ storedSession' = NoSession
        /\ authReturn' = [call |-> "signOut", threw |-> FALSE, user |-> <<>>]
        /\ UNCHANGED <<tz, now, storeVars, screen, dashLogs, dailyVars, filteredHistory,
                       formVars, userProfiles>>

\* the session on the server ends (expiry, or a sign-out elsewhere)
SessionEnds ==
    /\ authSession # <<>>
    /\ authSession' = <<>>
    /\ UNCHANGED <<tz, now, storeVars, screen, dashLogs, dailyVars, filteredHistory,
                   formVars, storedSession, userProfiles, authReturn>>

----------------------------------------------------------------------------
\* The clock

Tick ==
    /\ now < NowStart(tz) + MaxTicks * TickSecs
    /\ now' = now + TickSecs
    /\ UNCHANGED <<tz, authVars, formVars, storeVars, screen, dashLogs, dailyVars, filteredHistory>>

----------------------------------------------------------------------------
\* Spec: the application started on an empty store; the user marks doses and
\* edits the history

InitViews ==
    /\ screen = "dashboard"
    /\ dashLogs = fetchLogs(dbLogs)
    /\ DailyUnmounted
    /\ filteredHistory = <<>>
    /\ FormClosed
    /\ SignedIn

Init ==
    /\ tz \in TZOffsets
    /\ now = NowStart(tz)
    /\ dbPrescriptions = <<Prescription(1), Prescription(2)>>
    /\ dbSchedules = RulesSameTime
    /\ dbLogs = <<>>
    /\ dbHistory = <<>>
    /\ InitViews

Next ==
    \/ OpenDaily
    \/ RefreshDaily
    \/ CloseDaily
    \/ CardMarkTaken
    \/ CardMarkMissed
    \/ OpenHistory
    \/ HistorySaveEdit
    \/ HistoryDeleteEntry
    \/ CloseHistory
    \/ Tick

Spec == Init /\ [][Next]_vars

----------------------------------------------------------------------------
\* SpecView: the daily view opened on a drawn snapshot of the store

LogRow(pid, time, status) ==
    [id |-> 0, prescription_id |-> pid, scheduled_time |-> time,
     taken_time |-> <<>>, status |-> status, is_time_corrected |-> FALSE]

HistoryRow(pid, date, time, actual) ==
    [id |-> 0, prescription_id |-> pid, scheduled_date |-> date,
     scheduled_time |-> time, actual_taken_datetime |-> actual,
     quantity_taken |-> 1, is_corrected |-> FALSE]

\* the instant of the 08:00 dose of Today
EightToday == parseLocal(Today, TimeOfDay(8, 0, 0))

\* log rows around the 08:00 dose of Today: 30 s after it, 59 s before,
\* exactly 60 s after, 5 min after, and a row of the other prescription
SnapLogRows ==
    {LogRow(1, EightToday + 30, "missed"),
     LogRow(1, EightToday + 30, "skipped"),
     LogRow(1, EightToday - 59, "taken"),
     LogRow(1, EightToday + 60, "missed"),
     LogRow(1, EightToday + 300, "missed"),
     LogRow(2, EightToday + 30, "pending")}

\* history rows: the scheduled fields of the 08:00 dose with a near and a far
\* actual time, the actual time of the dose under other scheduled fields,
\* and the scheduled fields under the other prescription
SnapHistoryRows ==
    {HistoryRow(1, Today, TimeOfDay(8, 0, 0), EightToday),
     HistoryRow(1, Today, TimeOfDay(8, 0, 0), EightToday + 2 * DaySecs),
     HistoryRow(1, Today - 1, TimeOfDay(8, 0, 0), EightToday),
     HistoryRow(1, Today, TimeOfDay(8, 0, 30), EightToday),
     HistoryRow(2, Today, TimeOfDay(8, 1, 0), EightToday + 60)}

InitView ==
    /\ tz \in TZOffsets
    /\ now = NowStart(tz)
    /\ dbPrescriptions = <<Prescription(1), Prescription(2)>>
    /\ dbSchedules = RulesMinuteApart
    /\ dbLogs \in {Keyed(rows) : rows \in SeqsUpTo(SnapLogRows, MaxSnapLogs)}
    /\ dbHistory \in {Keyed(rows) : rows \in SeqsUpTo(SnapHistoryRows, MaxSnapHist)}
    /\ InitViews

NextView ==
    \/ OpenDaily
    \/ RefreshDaily
    \/ CloseDaily
    \/ SetStatusFilter

SpecView == InitView /\ [][NextView]_vars

----------------------------------------------------------------------------
\* SpecExpand: the daily view over date ranges, on a drawn table of rules

\* a daily rule, a Sunday rule at the same time of day, a Monday rule with
\* seconds, an inactive rule and a rule of the other prescription
RuleChoices ==
    {Rule(0, 1, TimeOfDay(8, 0, 0), 1, 1..7, TRUE),
     Rule(0, 1, TimeOfDay(8, 0, 0), 2, {7}, TRUE),
     Rule(0, 1, TimeOfDay(20, 0, 30), 1, {1}, TRUE),
     Rule(0, 1, TimeOfDay(9, 0, 0), 1, 1..7, FALSE),
     Rule(0, 2, TimeOfDay(8, 0, 0), 3, {1, 3}, TRUE)}

InitExpand ==
    /\ tz \in TZOffsets
    /\ now = NowStart(tz)
    /\ dbPrescriptions = <<Prescription(1), Prescription(2)>>
    /\ dbSchedules \in {Keyed(rows) : rows \in SeqsUpTo(RuleChoices, MaxRules)}
    /\ dbLogs = <<>>
    /\ dbHistory = <<>>
    /\ InitViews

NextExpand ==
    \/ OpenDaily
    \/ CloseDaily
    \/ SetStartDate
    \/ SetEndDate
    \/ SetSortOrder

SpecExpand == InitExpand /\ [][NextExpand]_vars

----------------------------------------------------------------------------
\* SpecAgg: the Dashboard and the history view on a drawn table of logs or
\* of history rows

AggLogRows == {LogRow(1, EightToday, st) : st \in Statuses}

\* history rows of the 08:00 dose taken on time, 15 min, 15 min 20 s and
\* 16 min late, and 15 min 20 s early
AggHistoryRows ==
    {HistoryRow(1, Today, TimeOfDay(8, 0, 0), EightToday + off) :
        off \in {0, 15 * 60, 15 * 60 + 20, 16 * 60, 0 - (15 * 60 + 20)}}

\* ten logs of which seven are taken
SevenOfTen ==
    [i \in 1..10 |-> LogRow(1, EightToday, IF i <= 7 THEN "taken" ELSE "pending")]

\* seven history rows of which five are on time and two are 16 min late
FiveOfSeven ==
    [i \in 1..7 |-> HistoryRow(1, Today, TimeOfDay(8, 0, 0),
                               EightToday + (IF i <= 5 THEN 0 ELSE 16 * 60))]

InitAgg ==
    /\ tz \in TZOffsets
    /\ now = NowStart(tz) + TickSecs
    /\ dbPrescriptions = <<Prescription(1), Prescription(2)>>
    /\ dbSchedules = RulesSameTime
    /\ \/ /\ dbLogs \in {Keyed(rows) : rows \in SeqsUpTo(AggLogRows, MaxAggRows) \cup {SevenOfTen}}
          /\ dbHistory = <<>>
       \/ /\ dbLogs = <<>>
          /\ dbHistory \in {Keyed(rows) : rows \in SeqsUpTo(AggHistoryRows, MaxAggRows) \cup {FiveOfSeven}}
    /\ screen = "dashboard"
    /\ dashLogs = <<>>
    /\ DailyUnmounted
    /\ filteredHistory = <<>>
    /\ FormClosed
    /\ SignedIn

NextAgg ==
    \/ DashboardFetchLogs
    \/ OpenHistory
    \/ CloseHistory

SpecAgg == InitAgg /\ [][NextAgg]_vars

----------------------------------------------------------------------------
\* Properties of the daily view on a snapshot (SpecView)

\* the doses the daily view shows
ShownDoses == {scheduledDoses[i] : i \in 1..Len(scheduledDoses)}

\* the history entry h carries the prescription, the calendar date and the
\* time of day of the dose d
SameSlot(h, d) ==
    /\ h.prescription_id = d.prescription.id
    /\ parseLocal(h.scheduled_date, h.scheduled_time) = d.scheduledDateTime

\* the distance in seconds between the scheduled time of log l and dose d
LogDistance(l, d) == Abs(l.scheduled_time - d.scheduledDateTime)

\* the positions of the fetched history entries in the slot of dose d
SlotEntries(d) == {j \in 1..Len(history) : SameSlot(history[j], d)}

\* the least element of a non-empty set of positions
Least(S) == CHOOSE j \in S : \A k \in S : j <= k

\* C1: reconcile precedence.  Every dose the daily view shows for which the
\* fetched history holds an entry of its prescription, date and time has
\* status taken and is linked to such an entry, whatever the logs hold.
C1_HistoryWins ==
    screen = "daily" =>
        \A d \in ShownDoses :
            SlotEntries(d) # {} =>
                /\ d.status = "taken"
                /\ d.historyEntry # <<>>
                /\ SameSlot(d.historyEntry[1], d)

\* a dose shown as taken and linked to its history entry while a log of
\* another status lies within the window
C1_Witness ==
    /\ screen = "daily"
    /\ \E d \in ShownDoses :
          /\ SlotEntries(d) # {}
          /\ d.status = "taken"
          /\ d.historyEntry # <<>>
          /\ \E j \in 1..Len(logs) :
                /\ LogDistance(logs[j], d) < 60
                /\ logs[j].status \in {"pending", "missed", "skipped"}

\* C2: history matching rule.  A shown dose is linked to a history entry
\* exactly when the fetched history holds an entry of its prescription,
\* scheduled date and scheduled time, and the link is to the first such
\* entry; the time the dose was actually taken plays no part.
C2_HistoryMatchRule ==
    screen = "daily" =>
        \A d \in ShownDoses :
            /\ d.historyEntry # <<>> <=> SlotEntries(d) # {}
            /\ SlotEntries(d) # {} =>
                   d.historyEntry = <<history[Least(SlotEntries(d))]>>

\* a dose linked to an entry of its slot whose actual time is two days away
C2_Witness ==
    /\ screen = "daily"
    /\ \E d \in ShownDoses :
          /\ d.historyEntry # <<>>
          /\ SameSlot(d.historyEntry[1], d)
          /\ Abs(d.historyEntry[1].actual_taken_datetime - d.scheduledDateTime)
                 >= 2 * DaySecs

\* the positions of the fetched logs less than w seconds (or, when closed,
\* at most w seconds) away from dose d
LogsNear(d, w, closed) ==
    {j \in 1..Len(logs) :
        IF closed THEN LogDistance(logs[j], d) <= w ELSE LogDistance(logs[j], d) < w}

\* the doses of the cards of the Dashboard
CardDoses ==
    UNION {LET doses == getTodaysDoses(dbPrescriptions[i], activeRows(dbSchedules),
                                       dashLogs, now)
           IN {[prescription |-> dbPrescriptions[i], dose |-> doses[k]] :
                   k \in 1..Len(doses)} :
           i \in 1..Len(dbPrescriptions)}

\* the logs of the card of prescription p less than w seconds (or, when
\* closed, at most w seconds) away from time t
CardLogsNear(p, t, w, closed) ==
    {j \in 1..Len(dashLogs) :
        /\ dashLogs[j].prescription_id = p.id
        /\ IF closed THEN Abs(dashLogs[j].scheduled_time - t) <= w
                     ELSE Abs(dashLogs[j].scheduled_time - t) < w}

\* the log matching rule with the given window, in the daily view and on
\* the cards
LogMatchRule(w, closed) ==
    /\ screen = "daily" =>
          \A d \in ShownDoses :
              SlotEntries(d) = {} =>
                  LET near == LogsNear(d, w, closed)
                  IN IF near = {}
                     THEN d.status = "pending" /\ d.log = <<>>
                     ELSE \E j \in near : d.status = logs[j].status /\ d.log = <<logs[j]>>
    /\ \A c \in CardDoses :
          LET near == CardLogsNear(c.prescription, c.dose.time, w, closed)
          IN IF near = {}
             THEN c.dose.status = "pending"
             ELSE \E j \in near : c.dose.status = dashLogs[j].status

RECURSIVE Tally(_, _)
\* the number of doses of the sequence with the given status, counted one
\* dose after the other
Tally(doses, status) ==
    IF doses = <<>> THEN 0
    ELSE (IF Head(doses).status = status THEN 1 ELSE 0) + Tally(Tail(doses), status)

\* C10: aggregation counts.  The statistics of the shown doses are the number
\* of doses and the numbers of taken, missed and pending doses, and every
\* reordering of the doses has the same statistics.
C10_StatsCounts ==
    screen = "daily" =>
        /\ getStats(scheduledDoses) =
               [total |-> Len(scheduledDoses),
                taken |-> Tally(scheduledDoses, "taken"),
                missed |-> Tally(scheduledDoses, "missed"),
                pending |-> Tally(scheduledDoses, "pending")]
        /\ \A perm \in Orderings(scheduledDoses) :
               getStats(perm) = getStats(scheduledDoses)

\* three doses shown, one taken, one missed and one pending
C10_Witness ==
    /\ screen = "daily"
    /\ getStats(scheduledDoses) = [total |-> 3, taken |-> 1, missed |-> 1, pending |-> 1]

----------------------------------------------------------------------------
\* Properties of the expansion (SpecExpand)

\* the weekday of calendar day number day, 1 = Monday .. 7 = Sunday (day 0
\* is a Monday)
Weekday(day) == (day % 7) + 1

\* the positions of the stored rules of prescription pid that are active and
\* whose weekday set holds the weekday of the day
RulesOn(pid, day) ==
    {i \in 1..Len(dbSchedules) :
        /\ dbSchedules[i].prescription_id = pid
        /\ dbSchedules[i].is_active
        /\ Weekday(day) \in dbSchedules[i].days_of_week}

\* the instant of a rule on a day: its hour and minute of that day, local time
RuleInstant(rule, day) == day * DaySecs + (rule.dose_time \div 60) * 60 - tz

\* the positions of the shown doses of prescription pid at instant t
DosesAt(pid, t) ==
    {k \in 1..Len(scheduledDoses) :
        /\ scheduledDoses[k].prescription.id = pid
        /\ scheduledDoses[k].scheduledDateTime = t}

\* the positions of the shown doses of prescription pid on the given day
DosesOn(pid, day) ==
    {k \in 1..Len(scheduledDoses) :
        /\ scheduledDoses[k].prescription.id = pid
        /\ scheduledDoses[k].scheduledDateTime + tz \in
               (day * DaySecs)..(day * DaySecs + DaySecs - 1)}

PrescriptionIds == {dbPrescriptions[i].id : i \in 1..Len(dbPrescriptions)}

\* the daily view is open and its fetch has succeeded
DailyLoaded == screen = "daily" /\ prescriptions # <<>>

\* C4: single-date expansion.  When the loaded daily view shows one date, it shows
\* for every prescription exactly one dose per active rule whose weekday set
\* holds the weekday of the date (1 = Monday .. 7 = Sunday), at the hour and
\* minute of the rule, and no other dose; rules at the same time of day
\* give as many doses.
C4_SingleDateExpansion ==
    (DailyLoaded /\ startDate = endDate) =>
        \A pid \in PrescriptionIds :
            /\ Cardinality(DosesOn(pid, startDate)) = Cardinality(RulesOn(pid, startDate))
            /\ Cardinality(DosesOn(pid, startDate)) =
                   Cardinality({k \in 1..Len(scheduledDoses) :
                                   scheduledDoses[k].prescription.id = pid})
            /\ \A i \in RulesOn(pid, startDate) :
                   LET t == RuleInstant(dbSchedules[i], startDate)
                   IN Cardinality(DosesAt(pid, t)) =
                          Cardinality({j \in RulesOn(pid, startDate) :
                                          RuleInstant(dbSchedules[j], startDate) = t})

\* a Sunday on which a daily rule and a Sunday rule at the same time of day
\* give two doses at the same instant
C4_Witness ==
    /\ DailyLoaded
    /\ startDate = endDate
    /\ Weekday(startDate) = 7
    /\ \E pid \in PrescriptionIds, i \in 1..Len(dbSchedules) :
          /\ i \in RulesOn(pid, startDate)
          /\ dbSchedules[i].days_of_week = {7}
          /\ Cardinality(DosesAt(pid, RuleInstant(dbSchedules[i], startDate))) = 2

\* the days of the range the daily view shows
RangeDays == IF startDate = NoDate \/ endDate = NoDate THEN {} ELSE startDate..endDate

\* C5: date-range expansion.  The loaded daily view shows, for every prescription
\* and every day from the start date to the end date inclusive, one dose
\* per active rule whose weekday set holds the weekday of that day, and no
\* dose on any other day; so one rule gives as many doses as the range has
\* days of its weekdays.
C5_RangeExpansion ==
    DailyLoaded =>
        \A pid \in PrescriptionIds :
            /\ \A day \in RangeDays :
                   Cardinality(DosesOn(pid, day)) = Cardinality(RulesOn(pid, day))
            /\ Cardinality({k \in 1..Len(scheduledDoses) :
                               scheduledDoses[k].prescription.id = pid}) =
                   Cardinality({<<day, i>> \in RangeDays \X (1..Len(dbSchedules)) :
                                   i \in RulesOn(pid, day)})

\* the positions of the shown doses at the given local time of day
DosesAtTimeOfDay(time) ==
    {k \in 1..Len(scheduledDoses) :
        (scheduledDoses[k].scheduledDateTime + tz) % DaySecs = time}

\* fourteen days on which a daily rule gives fourteen doses and a Monday
\* rule gives two
C5_Witness ==
    /\ DailyLoaded
    /\ endDate - startDate + 1 = 14
    /\ \E i, j \in 1..Len(dbSchedules) :
          /\ dbSchedules[i].is_active /\ dbSchedules[i].days_of_week = 1..7
          /\ dbSchedules[j].is_active /\ dbSchedules[j].days_of_week = {1}
          /\ Len(dbSchedules) = 2
          /\ Cardinality(DosesAtTimeOfDay((dbSchedules[i].dose_time \div 60) * 60)) = 14
          /\ Cardinality(DosesAtTimeOfDay((dbSchedules[j].dose_time \div 60) * 60)) = 2

\* C17: exact time of day.  The loaded daily view shows, for every day of
\* its range and every rule that applies on that day, a dose at the rule's
\* hour, minute and second of that day in local time.
C17_ExactTimeOfDay ==
    DailyLoaded =>
        \A pid \in PrescriptionIds : \A day \in RangeDays : \A i \in RulesOn(pid, day) :
            DosesAt(pid, day * DaySecs + dbSchedules[i].dose_time - tz) # {}

\* s is in non-decreasing order
NonDecreasing(s) == \A k \in 1..(Len(s) - 1) : s[k] <= s[k + 1]

\* s is in non-increasing order
NonIncreasing(s) == \A k \in 1..(Len(s) - 1) : s[k] >= s[k + 1]

\* the instants of the shown doses, in the order shown
ShownInstants == [k \in 1..Len(scheduledDoses) |-> scheduledDoses[k].scheduledDateTime]

\* C18: ordering.  generateScheduledTimes returns the instants of a day in
\* non-decreasing order for every order of the rules, and the loaded daily
\* view lists its doses in non-decreasing order of scheduled instant when
\* the sort order is ascending and in non-increasing order when descending.
C18_Ordering ==
    /\ \A rules \in Orderings(dbSchedules) : \A day \in {0, Today, MaxDay} :
           NonDecreasing(generateScheduledTimes(rules, day * DaySecs - tz))
    /\ DailyLoaded =>
           IF sortOrder = "asc" THEN NonDecreasing(ShownInstants)
                                ELSE NonIncreasing(ShownInstants)

\* a descending daily view of a day on which a prescription has two rules,
\* the later one first in the table: the view goes strictly down, the
\* expander output strictly up
C18_Witness ==
    /\ DailyLoaded
    /\ sortOrder = "desc"
    /\ startDate = endDate
    /\ \E k \in 1..(Len(scheduledDoses) - 1) :
          scheduledDoses[k].scheduledDateTime > scheduledDoses[k + 1].scheduledDateTime
    /\ \E pid \in PrescriptionIds : \E i, j \in RulesOn(pid, startDate) :
          /\ i < j
          /\ dbSchedules[i].dose_time > dbSchedules[j].dose_time
          /\ LET times == generateScheduledTimes(dbSchedules, startDate * DaySecs - tz)
             IN Len(times) = 2 /\ times[1] < times[2]

----------------------------------------------------------------------------
\* Properties of the operations (Spec)

\* the number of stored logs with status missed
MissedLogs(table) == Cardinality({j \in 1..Len(table) : table[j].status = "missed"})

\* a dose shown without history entry in its slot and without near log is
\* pending, whatever the clock says, and a dose shown as missed carries a
\* log with status missed; the same on the cards
NoDecayInViews ==
    /\ screen = "daily" =>
          \A d \in ShownDoses :
              /\ (SlotEntries(d) = {} /\ LogsNear(d, 60, FALSE) = {}) => d.status = "pending"
              /\ d.status = "missed" =>
                     \E j \in 1..Len(logs) :
                         logs[j].status = "missed" /\ d.log = <<logs[j]>>
    /\ \A c \in CardDoses :
          c.dose.status = "missed" => c.dose.log # <<>> /\ c.dose.log[1].status = "missed"

\* C6: no implicit status decay.  A dose without matching history entry and
\* without matching log is pending before and after its time; a dose is
\* missed only through a log with status missed; and a step that stores a
\* log with status missed is a step of the mark-missed action.
C6_NoImplicitDecay ==
    /\ []NoDecayInViews
    /\ [][MissedLogs(dbLogs') > MissedLogs(dbLogs) => CardMarkMissed]_vars

\* a dose whose time has passed, without history entry and without log,
\* shown as pending
C6_Witness ==
    /\ screen = "daily"
    /\ \E d \in ShownDoses :
          /\ d.scheduledDateTime < now
          /\ SlotEntries(d) = {}
          /\ LogsNear(d, 60, FALSE) = {}
          /\ d.status = "pending"

\* the clock values at which a computation is repeated: every clock of the
\* day of the model and one three days later
ClockValues ==
    {NowStart(tz) + k * TickSecs : k \in 0..MaxTicks} \cup {NowStart(tz) + 3 * DaySecs}

\* the loaded daily view shows what generateScheduledDoses gives from the
\* view's snapshot at every clock value, and generateScheduledTimes gives
\* for today the same instants at every clock value of today
SameAtEveryClock ==
    /\ DailyLoaded =>
          \A c \in ClockValues :
              scheduledDoses =
                  generateScheduledDoses(<<>>, prescriptions, doseSchedules, logs, history,
                                         startDate, endDate, selectedPrescription,
                                         statusFilter, sortOrder, c)
    /\ \A c \in ClockValues :
          formatDate(c) = formatDate(now) =>
              generateScheduledTimes(dbSchedules, c) =
                  generateScheduledTimes(dbSchedules, parseLocal(formatDate(now), 0))

\* C19: determinism and purity.  Expanding the same rules for the same date
\* and reconciling the same snapshot give the same result at every clock
\* value, and a step that computes the doses of the daily view leaves the
\* rules, the logs and the history of the store as they are.
C19_DeterministicAndPure ==
    /\ []SameAtEveryClock
    /\ [][(scheduledDoses' # scheduledDoses \/ screen' = "daily") =>
              UNCHANGED <<dbPrescriptions, dbSchedules, dbLogs, dbHistory>>]_vars

\* a loaded daily view whose clock has moved past a dose since the start:
\* the dose is still pending
C19_Witness ==
    /\ DailyLoaded
    /\ now > NowStart(tz)
    /\ \E k \in 1..Len(scheduledDoses) :
          /\ scheduledDoses[k].status = "pending"
          /\ NowStart(tz) < scheduledDoses[k].scheduledDateTime
          /\ scheduledDoses[k].scheduledDateTime < now

\* C7: history is the sole source of truth for taken.  After a fetch, a dose
\* is shown as taken only if the fetched history holds an entry of its slot.
\* Doses near a log of another prescription are left aside (they take the
\* status of that log).
C7_TakenOnlyWithHistory ==
    screen = "daily" =>
        \A d \in ShownDoses :
            (/\ d.status = "taken"
             /\ \A j \in LogsNear(d, 60, FALSE) :
                    logs[j].prescription_id = d.prescription.id)
                => SlotEntries(d) # {}

----------------------------------------------------------------------------
\* Properties of the rates (SpecAgg)

\* the rounded percentage of part in whole, 0 when whole is 0
RoundedPercent(part, whole) ==
    IF whole = 0 THEN 0 ELSE (200 * part + whole) \div (2 * whole)

\* C8: adherence rate.  The rate the Dashboard reports is the rounded
\* percentage of taken doses among the reconciled doses its cards show, and
\* 0 when there is no dose.
C8_RateOverReconciledDoses ==
    getAdherenceRate(dashLogs) =
        RoundedPercent(Cardinality({c \in CardDoses : c.dose.status = "taken"}),
                       Cardinality(CardDoses))

\* C9: on-time rate.  The rate the history view reports is the rounded
\* percentage, among the entries it shows, of those whose rounded offset in
\* minutes is at most 15 in absolute value, and 0 when it shows no entry.
C9_OnTimeRateByClassifier ==
    screen = "history" =>
        onTimeRate(filteredHistory) =
            RoundedPercent(Cardinality({i \in 1..Len(filteredHistory) :
                                           isOnTimeColor(filteredHistory[i])}),
                           Len(filteredHistory))

----------------------------------------------------------------------------
\* SpecTiming: the daily view and the history view on a drawn history of
\* the 08:00 dose of Today

\* seconds between the scheduled and the actual time of a drawn entry
TimingOffsets ==
    {0, 20, 0 - 20, 30, 0 - 30, 80, 90, 0 - 90, 600, 920, 0 - 920, 960, 3620, 3660}

TimingRows ==
    {[HistoryRow(1, Today, TimeOfDay(8, 0, 0), EightToday + off)
         EXCEPT !.is_corrected = flag] :
        off \in TimingOffsets, flag \in BOOLEAN}

InitTiming ==
    /\ tz \in TZOffsets
    /\ now = NowStart(tz) + TickSecs
    /\ dbPrescriptions = <<Prescription(1), Prescription(2)>>
    /\ dbSchedules = RulesSameTime
    /\ dbLogs = <<>>
    /\ dbHistory \in {Keyed(rows) : rows \in SeqsUpTo(TimingRows, MaxTimingRows)}
    /\ InitViews

NextTiming ==
    \/ OpenDaily
    \/ CloseDaily
    \/ OpenHistory
    \/ CloseHistory

SpecTiming == InitTiming /\ [][NextTiming]_vars

----------------------------------------------------------------------------
\* Properties of the timing classifier (SpecTiming)

\* the pairs of scheduled and actual time the open view shows a label for:
\* the doses of the daily view that have a history entry, and the entries
\* of the history view
ShownPairs ==
    {[scheduled |-> d.scheduledDateTime,
      actual |-> d.historyEntry[1].actual_taken_datetime,
      flag |-> d.historyEntry[1].is_corrected,
      label |-> getTimeDifference(d.scheduledDateTime,
                                  d.historyEntry[1].actual_taken_datetime),
      view |-> "daily"] :
        d \in {x \in ShownDoses : screen = "daily" /\ x.historyEntry # <<>>}}
    \cup
    {[scheduled |-> parseLocal(filteredHistory[i].scheduled_date,
                               filteredHistory[i].scheduled_time),
      actual |-> filteredHistory[i].actual_taken_datetime,
      flag |-> filteredHistory[i].is_corrected,
      label |-> historyTimeDifference(filteredHistory[i]),
      view |-> "history"] :
        i \in {k \in 1..Len(filteredHistory) : screen = "history"}}

\* m is the number of minutes nearest to secs seconds, the upper one of two
\* when secs lies halfway
NearestMinute(secs, m) == 60 * m <= secs + 30 /\ 60 * m > secs - 30

\* the label that belongs to an offset of m minutes
LabelOf(m) ==
    IF m = 0 THEN [text |-> "On time", minutes |-> 0]
    ELSE IF m > 0 THEN [text |-> "min late", minutes |-> m]
    ELSE [text |-> "min early", minutes |-> 0 - m]

\* the signed offset a label stands for
OffsetOf(label) == IF label.text = "min early" THEN 0 - label.minutes ELSE label.minutes

\* every shown label is the label of the rounded signed offset
LabelsAreRoundedOffsets ==
    \A pr \in ShownPairs :
        \E m \in (0 - 70)..70 :
            /\ NearestMinute(pr.actual - pr.scheduled, m)
            /\ pr.label = LabelOf(m)

\* the offset of the pair mirrored around the scheduled time
MirroredOffset(pr) ==
    OffsetOf(getTimeDifference(pr.scheduled, pr.scheduled - (pr.actual - pr.scheduled)))

\* C11 as stated: taking a dose as many seconds early as late negates the
\* offset.
C11_Original_MirrorNegates ==
    /\ LabelsAreRoundedOffsets
    /\ \A pr \in ShownPairs : MirroredOffset(pr) = 0 - OffsetOf(pr.label)

\* C11: offsetMinutes.  Every shown label is that of the signed difference
\* actual minus scheduled in minutes, rounded to the nearest integer with
\* halves rounded upwards: 'On time' for 0, late for a positive and early
\* for a negative offset.  Mirroring the actual time around the scheduled
\* time negates the offset, except when the difference lies halfway between
\* two minutes, where the mirrored offset is one more (90 s late gives 2,
\* 90 s early gives -1).
C11_RoundedSignedOffset ==
    /\ LabelsAreRoundedOffsets
    /\ \A pr \in ShownPairs :
          MirroredOffset(pr) =
              IF (pr.actual - pr.scheduled) % 60 = 30
              THEN 1 - OffsetOf(pr.label)
              ELSE 0 - OffsetOf(pr.label)

\* a dose taken 90 s early, labelled 1 min early, whose mirror image is
\* 2 min late
C11_Witness ==
    \E pr \in ShownPairs :
        /\ pr.actual - pr.scheduled = 0 - 90
        /\ pr.label = [text |-> "min early", minutes |-> 1]
        /\ MirroredOffset(pr) = 2

\* the colour that belongs to an offset of m minutes: green for on-time,
\* yellow for a moderate and red for a large deviation
BucketOf(m) ==
    IF m >= 0 - 15 /\ m <= 15 THEN "green"
    ELSE IF m >= 0 - 60 /\ m <= 60 THEN "yellow"
    ELSE "red"

\* the doses of the daily view that have a history entry
TakenDoses == {d \in ShownDoses : screen = "daily" /\ d.historyEntry # <<>>}

\* the entries of the history view
ShownEntries ==
    {filteredHistory[i] : i \in {k \in 1..Len(filteredHistory) : screen = "history"}}

\* the seconds from the scheduled to the actual time of a dose of the daily
\* view, and of an entry of the history view
DoseSeconds(d) == d.historyEntry[1].actual_taken_datetime - d.scheduledDateTime
EntrySeconds(e) ==
    e.actual_taken_datetime - parseLocal(e.scheduled_date, e.scheduled_time)

\* C12: timing bucket.  In the daily view, in the history view and in the
\* on-time statistic, the bucket of a pair of timestamps is the bucket of
\* its rounded offset in minutes.
C12_BucketOfRoundedOffset ==
    /\ \A d \in TakenDoses :
          \E m \in (0 - 70)..70 :
              /\ NearestMinute(DoseSeconds(d), m)
              /\ dailyTimeDifferenceColor(d.scheduledDateTime,
                     d.historyEntry[1].actual_taken_datetime) = BucketOf(m)
    /\ \A e \in ShownEntries :
          \E m \in (0 - 70)..70 :
              /\ NearestMinute(EntrySeconds(e), m)
              /\ historyTimeDifferenceColor(e) = BucketOf(m)
              /\ countsOnTime(e) <=> BucketOf(m) = "green"

\* C13: correction detection.  A taken dose is displayed as corrected, in
\* the daily view and in the history view, exactly when its rounded offset
\* in minutes is more than 1 or less than -1, whatever the stored flag.
C13_CorrectedByRoundedOffset ==
    /\ \A d \in TakenDoses :
          \E m \in (0 - 70)..70 :
              /\ NearestMinute(DoseSeconds(d), m)
              /\ dailyCorrectionIndicator(d) <=> (m > 1 \/ m < 0 - 1)
    /\ \A e \in ShownEntries :
          \E m \in (0 - 70)..70 :
              /\ NearestMinute(EntrySeconds(e), m)
              /\ historyCorrectionBadge(e) <=> (m > 1 \/ m < 0 - 1)

----------------------------------------------------------------------------
\* SpecEdit: edits of a drawn history of the 08:00 dose of Today, which may
\* hold the dose twice, and corrections of its log

\* entries of the 08:00 dose: taken on time with the flag unset and set,
\* taken 10 min and 20 min late with the flag unset
EditHistoryRows ==
    {HistoryRow(1, Today, TimeOfDay(8, 0, 0), EightToday),
     [HistoryRow(1, Today, TimeOfDay(8, 0, 0), EightToday) EXCEPT !.is_corrected = TRUE],
     HistoryRow(1, Today, TimeOfDay(8, 0, 0), EightToday + 10 * 60),
     HistoryRow(1, Today, TimeOfDay(8, 0, 0), EightToday + 20 * 60)}

\* the log of the 08:00 dose, taken on time
EditLogRow == [LogRow(1, EightToday, "taken") EXCEPT !.taken_time = <<EightToday>>]

InitEdit ==
    /\ tz \in TZOffsets
    /\ now = NowStart(tz) + TickSecs
    /\ dbPrescriptions = <<Prescription(1), Prescription(2)>>
    /\ dbSchedules = RulesSameTime
    /\ dbLogs \in {<<>>, Keyed(<<EditLogRow>>)}
    /\ dbHistory \in {Keyed(rows) : rows \in SeqsUpTo(EditHistoryRows, MaxEditRows)}
    /\ InitViews

NextEdit ==
    \/ OpenHistory
    \/ HistorySaveEdit
    \/ CloseHistory
    \/ CardCorrectTime
    \/ OpenDaily
    \/ CloseDaily

SpecEdit == InitEdit /\ [][NextEdit]_vars

----------------------------------------------------------------------------
\* Properties of the stored flags

\* the rounded offset of a history entry is more than one minute
DerivedCorrected(e) ==
    \E m \in (0 - 70)..70 :
        NearestMinute(EntrySeconds(e), m) /\ (m > 1 \/ m < 0 - 1)

\* C14: flag/derived agreement.  Every stored history entry, created by
\* mark-taken or changed by an edit, has is_corrected set exactly when its
\* rounded offset is more than one minute.
C14_FlagEqualsDerived ==
    \A i \in 1..Len(dbHistory) :
        dbHistory[i].is_corrected <=> DerivedCorrected(dbHistory[i])

\* the rows of table after that have the key of row before
SameKey(before, after) == {j \in 1..Len(after) : after[j].id = before.id}

\* C15: in every step, a history entry whose actual time changes has
\* is_corrected set afterwards and keeps its scheduled date and time, and a
\* log whose taken time or correction flag changes has is_time_corrected set
\* afterwards and keeps its scheduled time.
C15_EditsSetFlag ==
    [][/\ \A i \in 1..Len(dbHistory) : \A j \in SameKey(dbHistory[i], dbHistory') :
             dbHistory'[j].actual_taken_datetime # dbHistory[i].actual_taken_datetime =>
                 /\ dbHistory'[j].is_corrected
                 /\ dbHistory'[j].scheduled_date = dbHistory[i].scheduled_date
                 /\ dbHistory'[j].scheduled_time = dbHistory[i].scheduled_time
       /\ \A i \in 1..Len(dbLogs) : \A j \in SameKey(dbLogs[i], dbLogs') :
             dbLogs'[j] # dbLogs[i] =>
                 /\ dbLogs'[j].is_time_corrected
                 /\ dbLogs'[j].scheduled_time = dbLogs[i].scheduled_time
                 /\ dbLogs'[j].status = dbLogs[i].status]_vars

\* an entry edited to 20 min after its scheduled time with the flag set (no
\* drawn entry is like that), beside a log whose time was corrected
C15_Witness ==
    /\ \E i \in 1..Len(dbHistory) :
          /\ dbHistory[i].is_corrected
          /\ EntrySeconds(dbHistory[i]) = 20 * 60
    /\ \E j \in 1..Len(dbLogs) :
          /\ dbLogs[j].is_time_corrected
          /\ dbLogs[j].taken_time # <<dbLogs[j].scheduled_time>>

\* C16: ambiguous correlation is surfaced.  A dose of the daily view in
\* whose slot the fetched history holds two or more entries reports all of
\* them.
C16_AllMatchesReported ==
    screen = "daily" =>
        \A d \in ShownDoses :
            Cardinality(SlotEntries(d)) >= 2 =>
                {d.historyEntry[k] : k \in 1..Len(d.historyEntry)} =
                    {history[j] : j \in SlotEntries(d)}

----------------------------------------------------------------------------
\* SpecForm: the rules of the prescriptions are edited in the form.
\* The store holds one prescription with one rule, on Mondays.

FormStoreRules == <<Rule(1, 1, TimeOfDay(8, 0, 0), 1, {1}, TRUE)>>

InitForm ==
    /\ tz \in TZOffsets
    /\ now = NowStart(tz)
    /\ dbPrescriptions = <<Prescription(1)>>
    /\ dbSchedules = FormStoreRules
    /\ dbLogs = <<>>
    /\ dbHistory = <<>>
    /\ InitViews

NextForm ==
    \/ OpenForm
    \/ CloseForm
    \/ addSchedule
    \/ removeSchedule
    \/ updateSchedule
    \/ toggleDay
    \/ handleSubmit

SpecForm == InitForm /\ [][NextForm]_vars

----------------------------------------------------------------------------
\* Properties of the rules in the store

\* C20: rule invariant.  After any sequence of addSchedule, removeSchedule,
\* updateSchedule and toggleDay in the form followed by submit, every rule
\* of the store has a non-empty weekday set within 1..7 and a quantity
\* greater than 0.
C20_RuleInvariant ==
    \A i \in 1..Len(dbSchedules) :
        /\ dbSchedules[i].days_of_week # {}
        /\ dbSchedules[i].days_of_week \subseteq 1..7
        /\ dbSchedules[i].quantity > 0

----------------------------------------------------------------------------
\* SpecActive: prescriptions are deactivated and reactivated.  Prescription 1
\* is active, prescription 2 was deactivated earlier; both have rules, and
\* the store may hold a log of prescription 1 and a history entry of
\* prescription 2.

InitActive ==
    /\ tz \in TZOffsets
    /\ now = NowStart(tz)
    /\ dbPrescriptions = <<Prescription(1), [Prescription(2) EXCEPT !.is_active = FALSE]>>
    /\ dbSchedules = RulesMinuteApart
    /\ dbLogs \in {<<>>, Keyed(<<EditLogRow>>)}
    /\ dbHistory \in {<<>>, Keyed(<<HistoryRow(2, Today, TimeOfDay(8, 0, 0), EightToday)>>)}
    /\ InitViews

NextActive ==
    \/ CardDelete
    \/ Reactivate
    \/ OpenDaily
    \/ RefreshDaily
    \/ CloseDaily
    \/ Tick

SpecActive == InitActive /\ [][NextActive]_vars

----------------------------------------------------------------------------
\* Properties of deactivation

\* the instants the rules of prescription pid in table give on Today
InstantsOf(table, pid) ==
    generateScheduledTimes(SelectSeq(table, LAMBDA r : r.prescription_id = pid),
                           parseLocal(Today, 0))

\* the loaded daily view shows, for every prescription it has fetched, the
\* instants the rules of the start give
ShowsInstantsOfStart ==
    DailyLoaded =>
        \A i \in 1..Len(prescriptions) :
            LET pid == prescriptions[i].id
                shown == SelectSeq(scheduledDoses, LAMBDA d : d.prescription.id = pid)
            IN [k \in 1..Len(shown) |-> shown[k].scheduledDateTime] =
                   InstantsOf(RulesMinuteApart, pid)

\* C21: soft deactivation.  No step removes a prescription, a rule, a log
\* or a history entry; a step changes of a prescription only its active
\* flag and of a rule at most its active flag, to true; the rules of every
\* prescription give the same instants after the step as before, and the
\* daily view shows for an active prescription the instants its rules gave
\* at the start.
C21_SoftDeactivation ==
    /\ []ShowsInstantsOfStart
    /\ [][/\ Len(dbPrescriptions') = Len(dbPrescriptions)
          /\ \A i \in 1..Len(dbPrescriptions) :
                 [dbPrescriptions'[i] EXCEPT !.is_active = TRUE] =
                     [dbPrescriptions[i] EXCEPT !.is_active = TRUE]
          /\ Len(dbSchedules') = Len(dbSchedules)
          /\ \A i \in 1..Len(dbSchedules) :
                 \/ dbSchedules'[i] = dbSchedules[i]
                 \/ dbSchedules'[i] = [dbSchedules[i] EXCEPT !.is_active = TRUE]
          /\ dbLogs' = dbLogs
          /\ dbHistory' = dbHistory
          /\ \A pid \in PrescriptionIds :
                 InstantsOf(dbSchedules', pid) = InstantsOf(dbSchedules, pid)]_vars

\* prescription 1 deactivated and prescription 2 reactivated, with the log
\* and the history entry still in the store and the daily view showing the
\* dose of prescription 2
C21_Witness ==
    /\ \E i, j \in 1..Len(dbPrescriptions) :
          /\ dbPrescriptions[i].id = 1 /\ ~dbPrescriptions[i].is_active
          /\ dbPrescriptions[j].id = 2 /\ dbPrescriptions[j].is_active
    /\ dbLogs # <<>>
    /\ dbHistory # <<>>
    /\ DailyLoaded
    /\ \E k \in 1..Len(scheduledDoses) : scheduledDoses[k].prescription.id = 2
    /\ \A k \in 1..Len(scheduledDoses) : scheduledDoses[k].prescription.id # 1

----------------------------------------------------------------------------
\* SpecRepeat: the application started on an empty store, with room in the
\* tables for an action on a dose to be repeated

NextRepeat ==
    \/ CardMarkTakenAgain
    \/ CardMarkMissedAgain
    \/ OpenDaily
    \/ CloseDaily

SpecRepeat == Init /\ [][NextRepeat]_vars

----------------------------------------------------------------------------
\* Properties of the marking actions

\* C22: log uniqueness.  After any sequence of mark-taken and mark-missed
\* actions the store holds at most one log per prescription and scheduled
\* instant.
C22_OneLogPerInstant ==
    \A i, j \in 1..Len(dbLogs) :
        (/\ dbLogs[i].prescription_id = dbLogs[j].prescription_id
         /\ dbLogs[i].scheduled_time = dbLogs[j].scheduled_time) => i = j

\* C23: logs of another prescription never decide a status.  In the daily
\* view and on the cards, the log linked to a dose, whose status the dose
\* takes, is a log of the dose's prescription.
C23_LogOfOwnPrescription ==
    /\ screen = "daily" =>
          \A d \in ShownDoses :
              d.log # <<>> => d.log[1].prescription_id = d.prescription.id
    /\ \A c \in CardDoses :
          c.dose.log # <<>> => c.dose.log[1].prescription_id = c.prescription.id

\* C24: dose quantity.  In the loaded daily view every rule that applies
\* on a day of the range has a dose of its prescription at its instant with
\* the quantity of the rule.
C24_QuantityOfRule ==
    DailyLoaded =>
        \A pid \in PrescriptionIds : \A day \in RangeDays : \A i \in RulesOn(pid, day) :
            \E k \in DosesAt(pid, RuleInstant(dbSchedules[i], day)) :
                scheduledDoses[k].quantity = dbSchedules[i].quantity

\* the history entry h and the log l were written by one mark-taken
WrittenTogether(h, l) ==
    /\ l.prescription_id = h.prescription_id
    /\ l.status = "taken"
    /\ l.scheduled_time = parseTimestamptz(h.scheduled_date, h.scheduled_time)

\* the card doses in the slot of the history entry h
CardDosesOfSlot(h) ==
    {c \in CardDoses :
        /\ c.prescription.id = h.prescription_id
        /\ formatDate(c.dose.time) = h.scheduled_date
        /\ formatTime(c.dose.time) = h.scheduled_time}

\* C25: view agreement after mark-taken.  Once a mark-taken has written its
\* history entry and its log and the Dashboard has fetched the logs again,
\* the card, the dose-schedule screen and the loaded daily view all show
\* the dose as taken.
C25_ViewsAgreeOnTaken ==
    \A i \in 1..Len(dbHistory) :
        ((\E j \in 1..Len(dbLogs) : WrittenTogether(dbHistory[i], dbLogs[j]))
            /\ dashLogs = fetchLogs(dbLogs)) =>
            /\ \A c \in CardDosesOfSlot(dbHistory[i]) :
                   /\ c.dose.status = "taken"
                   /\ doseScreenTaken(c.prescription, c.dose.time, dbHistory)
            /\ (DailyLoaded /\ history = dbHistory) =>
                   \A d \in ShownDoses : SameSlot(dbHistory[i], d) => d.status = "taken"

\* C26: mark-taken atomicity.  In every reachable store, every history
\* entry has the log that mark-taken writes with it and every log with
\* status taken has its history entry: both were recorded or neither.
C26_HistoryAndLogTogether ==
    /\ \A i \in 1..Len(dbHistory) :
           \E j \in 1..Len(dbLogs) : WrittenTogether(dbHistory[i], dbLogs[j])
    /\ \A j \in 1..Len(dbLogs) :
           dbLogs[j].status = "taken" =>
               \E i \in 1..Len(dbHistory) : WrittenTogether(dbHistory[i], dbLogs[j])

\* the rules of prescription pid in table, without their keys
RulesWithoutKeys(table, pid) ==
    LET own == SelectSeq(table, LAMBDA r : r.prescription_id = pid)
    IN [k \in 1..Len(own) |->
           formRule(own[k].dose_time, own[k].quantity, own[k].days_of_week)]

\* the rules the form submits
SubmittedRules ==
    [k \in 1..Len(formSchedules) |->
        formRule(formSchedules[k].dose_time * 60, formSchedules[k].quantity,
                 formSchedules[k].days_of_week)]

\* C27: edit-prescription atomicity.  A step that changes the rules of the
\* store leaves the edited prescription with exactly the rules the form
\* submitted.
C27_EditAllOrNothing ==
    [][dbSchedules' # dbSchedules =>
           RulesWithoutKeys(dbSchedules', editingPrescription) = SubmittedRules]_vars

\* C28: status counts partition the total.  In the daily view the numbers
\* of taken, missed and pending doses add up to the total, whatever the
\* status of the logs matched.
C28_CountsAddUp ==
    screen = "daily" =>
        LET stats == getStats(scheduledDoses)
        IN stats.taken + stats.missed + stats.pending = stats.total

----------------------------------------------------------------------------
\* SpecRefresh: the user sets the filters of the daily view and refreshes

NextRefresh ==
    \/ OpenDaily
    \/ RefreshDaily
    \/ CloseDaily
    \/ SetStartDate
    \/ SetEndDate
    \/ SetSelectedPrescription
    \/ SetStatusFilter
    \/ SetSortOrder

SpecRefresh == Init /\ [][NextRefresh]_vars

\* C29: refresh preserves filters.  A refresh of the daily view leaves the
\* start date, the end date, the prescription filter, the status filter and
\* the sort order as the user set them.
C29_RefreshKeepsFilters ==
    [][RefreshDaily =>
           UNCHANGED <<startDate, endDate, selectedPrescription, statusFilter, sortOrder>>]_vars

----------------------------------------------------------------------------
\* SpecAuth: sessions are validated and ended.  At the start supabase.auth
\* holds no session or a session of user 1 or 2, localStorage holds nothing,
\* that session or an older one, and the table users holds any of the users.

InitAuth ==
    /\ tz \in TZOffsets
    /\ now = NowStart(tz)
    /\ dbPrescriptions = <<Prescription(1), Prescription(2)>>
    /\ dbSchedules = RulesSameTime
    /\ dbLogs = <<>>
    /\ dbHistory = <<>>
    /\ screen = "dashboard"
    /\ dashLogs = <<>>
    /\ DailyUnmounted
    /\ filteredHistory = <<>>
    /\ FormClosed
    /\ authSession \in {<<>>} \cup {<<Session(2, u)>> : u \in UserIds}
    /\ storedSession \in {NoSession, <<Session(1, 1)>>} \cup {<<Session(2, u)>> : u \in UserIds}
    /\ userProfiles \in SUBSET UserIds
    /\ authReturn = NoCall

NextAuth ==
    \/ validateStoredAuth
    \/ signOut
    \/ SessionEnds

SpecAuth == InitAuth /\ [][NextAuth]_vars

\* C30: session cleanup.  No call of validateStoredAuth or signOut ends
\* with an exception; after signOut, and after validateStoredAuth has
\* returned null, localStorage holds no session; validateStoredAuth returns
\* a user only in a step in which supabase.auth holds a session of that
\* user and the table users holds the user, and that session is the one
\* stored afterwards.
C30_SessionCleanup ==
    /\ [](/\ ~authReturn.threw
          /\ authReturn.call = "signOut" => authReturn.user = <<>>)
    /\ [][/\ signOut => storedSession' = NoSession
          /\ (validateStoredAuth /\ authReturn'.user = <<>>) => storedSession' = NoSession
          /\ (validateStoredAuth /\ authReturn'.user # <<>>) =>
                 /\ authSession # <<>>
                 /\ authReturn'.user = <<authSession[1].user_id>>
                 /\ authSession[1].user_id \in userProfiles
                 /\ storedSession' = authSession]_vars

\* validateStoredAuth has returned user 2 and replaced the older stored
\* session by the session of supabase.auth
C30_Witness ==
    /\ authReturn = [call |-> "validateStoredAuth", threw |-> FALSE, user |-> <<2>>]
    /\ storedSession = <<Session(2, 2)>>
    /\ authSession = <<Session(2, 2)>>

====
